---- MODULE Spec2Model ----
(***************************************************************************)
(* go-evmap: a double-buffered ("left-right") eventually consistent map.   *)
(*                                                                         *)
(* Two engines live in the repository and both are modelled here over the  *)
(* same heap of two physical map copies:                                   *)
(*   - the registry engine (src/unnamed/part_000 with src/reader.go):      *)
(*     explicit Refresh, a registry of Reader handles (specification Spec) *)
(*   - the auto-refresh engine (src/map.go): Refresh triggered by a write  *)
(*     counter, lookups directly on the map (specification SpecAuto)       *)
(* Both use the operation log of src/pkg/oplog/log.go.                     *)
(*                                                                         *)
(* Every goroutine is a thread with a program counter; a blocking          *)
(* sync.Mutex.Lock() is an action guarded by the lock being free.          *)
(***************************************************************************)
EXTENDS Integers, Sequences, FiniteSets, TLC

\* ---------------------------------------------------------------- bounds
MaxLog == 2          \* mutations are accepted while fewer than this are pending
MaxReaders == 2      \* Reader() is called at most this many times
MaxLag == 3          \* map.go: writes are issued while the write counter is below this

Threads == {"t1", "t2"}         \* goroutines calling into one shared Map
Keys == {"a", "b"}
Nil == "nil"                    \* the nil *V
Vals == {Nil, "p1"}             \* values are pointers *V
ZeroKey == "zero"               \* the zero value of K (entry.k of a Clear)
Copies == {"m1", "m2"}          \* the two maps allocated by NewMap
NoThread == "none"              \* an unlocked sync.Mutex
EmptyMap == [k \in {} |-> Nil]  \* make(map[K]*V)

\* The scenarios explored. A run is about many pending mutations over all keys
\* and values with one handle, or about many handles with one pending mutation
\* over one key, or about two handles and many pending mutations over one key.
Scopes ==
    { [log |-> MaxLog, rdrs |-> 1, keys |-> Keys, vals |-> Vals],
      [log |-> 1, rdrs |-> MaxReaders, keys |-> {"a"}, vals |-> {"p1"}],
      [log |-> MaxLog, rdrs |-> 2, keys |-> {"a"}, vals |-> {"p1"}] }

\* ------------------------------------------------- src/pkg/oplog/log.go
entryTypeInsert == 0
entryTypeDelete == 1
entryTypeClear == 2

newEntry(t, key, value) == [t |-> t, k |-> key, v |-> value]

Insert(key, value) == newEntry(entryTypeInsert, key, value)

Delete(key) == newEntry(entryTypeDelete, key, Nil)

Clear == [t |-> entryTypeClear, k |-> ZeroKey, v |-> Nil]

\* (*m)[k] = v
MapSet(m, k, v) == [x \in DOMAIN m \cup {k} |-> IF x = k THEN v ELSE m[x]]

\* delete(*m, k): a no-op when k is absent
MapDel(m, k) == [x \in DOMAIN m \ {k} |-> m[x]]

\* an applyEntry whose Delete of an absent key stores the key with a nil value
applyEntryToggle(e, m) ==
    CASE e.t = entryTypeInsert -> MapSet(m, e.k, e.v)
      [] e.t = entryTypeDelete -> IF e.k \in DOMAIN m THEN MapDel(m, e.k) ELSE MapSet(m, e.k, Nil)
      [] e.t = entryTypeClear -> EmptyMap
      [] OTHER -> m

applyEntry(e, m) ==
    CASE e.t = entryTypeInsert -> MapSet(m, e.k, e.v)
      [] e.t = entryTypeDelete -> MapDel(m, e.k)
      [] e.t = entryTypeClear -> EmptyMap
      [] OTHER -> m

\* Push appends the entry (Log.latest is written and never read)
Push(entries, e) == Append(entries, e)

\* a PushAndApply that applies the entry and forgets to log it
PushAndApplyUnlogged(entries, e, m) == [entries |-> entries, m |-> applyEntry(e, m)]

\* PushAndApply: the new entries and the new contents of the target map
PushAndApply(entries, e, m) == [entries |-> Append(entries, e), m |-> applyEntry(e, m)]

\* an Apply that replays the entries from the newest to the oldest
RECURSIVE ApplyReversed(_, _)
ApplyReversed(entries, m) ==
    IF entries = <<>> THEN m
    ELSE applyEntry(Head(entries), ApplyReversed(Tail(entries), m))

\* Apply: replay every entry, in order, onto m
RECURSIVE Apply(_, _)
Apply(entries, m) ==
    IF entries = <<>> THEN m
    ELSE Apply(Tail(entries), applyEntry(Head(entries), m))

LogClear == <<>>

LogLen(entries) == Len(entries)

NewLog == <<>>

\* ------------------------------------------------------------------ state
VARIABLES
    maps,         \* the heap: contents of the two physical map copies
    readable,     \* Map.readable: which copy readers are given
    writable,     \* Map.writable: which copy writers mutate
    oplog,        \* Map.oplog.entries
    writeLock,    \* Map.writeLock: its holder or NoThread
    readers,      \* Map.readers: the registry slice (handle ids)
    readersLock,  \* Map.readersLock
    rdrs,         \* the heap of Reader structs, indexed by handle id
    replicationWriteLag,     \* Map.replicationWriteLag (src/map.go)
    maxReplicationWriteLag,  \* Map.maxReplicationWriteLag (src/map.go)
    pc,           \* per thread: where it is in the call it executes
    loc,          \* per thread: the call's locals
    closedSet,    \* history: handles on which Close() has returned
    accepted,     \* history: every accepted mutation applied in order to an empty map
    refreshes,    \* history: how many Refresh calls of the registry engine have swapped, modulo 2
    scope         \* the scenario of this run (one of Scopes)

vars == <<maps, readable, writable, oplog, writeLock, readers, readersLock, rdrs,
          replicationWriteLag, maxReplicationWriteLag, pc, loc, closedSet, accepted, refreshes,
          scope>>

coreVars == <<maps, readable, writable, oplog, writeLock>>
regVars == <<readers, readersLock, rdrs, closedSet>>
lagVars == <<replicationWriteLag, maxReplicationWriteLag>>

NoLoc == <<>>

Handles == 1..Len(rdrs)

Range(s) == {s[i] : i \in 1..Len(s)}

\* the copy Get/Has on handle h is answered from
View(h) == maps[rdrs[h].readable]

\* the handles Reader() has returned to a caller
Returned == {h \in Handles : \A t \in Threads : ~(pc[t] = "Reader" /\ loc[t].r = h)}

Goto(t, label, locals) ==
    /\ pc' = [pc EXCEPT ![t] = label]
    /\ loc' = [loc EXCEPT ![t] = locals]

\* the call returns to its caller, which is free to make its next call
Finish(t) == Goto(t, "idle", NoLoc)

\* ------------------------------------------------------- NewMap (registry)
NewMap ==
    /\ maps = [c \in Copies |-> EmptyMap]
    /\ readable = "m1"
    /\ writable = "m2"
    /\ oplog = NewLog
    /\ writeLock = NoThread
    /\ readers = <<>>
    /\ readersLock = NoThread
    /\ rdrs = <<>>

Init ==
    /\ NewMap
    /\ replicationWriteLag = 0
    /\ maxReplicationWriteLag = 0
    /\ pc = [t \in Threads |-> "idle"]
    /\ loc = [t \in Threads |-> NoLoc]
    /\ closedSet = {}
    /\ accepted = EmptyMap
    /\ refreshes = 0
    /\ scope \in Scopes

\* ---------------------------------------------- src/unnamed/part_000: Map
\* A call that takes m.writeLock, touches only what that lock guards and
\* releases it (Insert, Delete, Clear) is one action: it is enabled when the
\* lock is free, which is when the blocking Lock() returns.

\* a swapLocked that leaves both pointers as they were
swapLockedKeeps(r, w) == [readable |-> r, writable |-> w]

\* a swapLocked without the temporary: both pointers end on the writable copy
swapLockedNoTmp(r, w) == [readable |-> w, writable |-> w]

\* swapLocked: the two pointers after the exchange
swapLocked(r, w) == [readable |-> w, writable |-> r]

\* a syncLocked that replays and forgets to clear the log
syncLockedKeepsLog(entries, m) == [entries |-> entries, m |-> Apply(entries, m)]

\* a syncLocked that rebuilds the copy from the log alone
syncLockedFromScratch(entries, m) == [entries |-> LogClear, m |-> Apply(entries, EmptyMap)]

\* syncLocked: Apply onto the copy m.writable denotes, then (deferred) Clear
syncLocked(entries, m) == [entries |-> LogClear, m |-> Apply(entries, m)]

\* what a mutation call does to the log, the writable copy and the history
Mutate(e) ==
    LET r == PushAndApply(oplog, e, maps[writable]) IN
    /\ oplog' = r.entries
    /\ maps' = [maps EXCEPT ![writable] = r.m]
    /\ accepted' = applyEntry(e, accepted)

\* Map.Insert
MapInsert(t, k, v) ==
    /\ pc[t] = "idle"
    /\ writeLock = NoThread
    /\ LogLen(oplog) < scope.log
    /\ Mutate(Insert(k, v))
    /\ Finish(t)
    /\ UNCHANGED <<readable, writable, writeLock, regVars, lagVars, refreshes, scope>>

\* Map.Delete: _, ok := (*m.writable)[key] is read before the deletion is applied
DeleteOk(m, k) == k \in DOMAIN m

\* Map.Delete, returning ok
MapDelete(t, k, ok) ==
    /\ pc[t] = "idle"
    /\ writeLock = NoThread
    /\ LogLen(oplog) < scope.log
    /\ ok = DeleteOk(maps[writable], k)
    /\ Mutate(Delete(k))
    /\ Finish(t)
    /\ UNCHANGED <<readable, writable, writeLock, regVars, lagVars, refreshes, scope>>

\* Map.Clear
MapClear(t) ==
    /\ pc[t] = "idle"
    /\ writeLock = NoThread
    /\ LogLen(oplog) < scope.log
    /\ Mutate(Clear)
    /\ Finish(t)
    /\ UNCHANGED <<readable, writable, writeLock, regVars, lagVars, refreshes, scope>>

\* Map.Refresh: m.writeLock.Lock(); m.swapLocked(); `range m.readers` evaluates
\* the slice once, without readersLock. atLock is history: the writable copy's
\* contents when the lock was taken.
RefreshLock(t) ==
    /\ pc[t] = "idle"
    /\ writeLock = NoThread
    /\ writeLock' = t
    /\ LET s == swapLocked(readable, writable) IN
          /\ readable' = s.readable
          /\ writable' = s.writable
    /\ Goto(t, IF readers = <<>> THEN "Refresh_sync" ELSE "Refresh_loop",
            [atLock |-> maps[writable], s |-> readers, i |-> 1])
    /\ refreshes' = (refreshes + 1) % 2
    /\ UNCHANGED <<maps, oplog, regVars, lagVars, accepted, scope>>

\* Reader.swapReadable: r.lock.Lock(); r.readable = m; r.lock.Unlock()
swapReadable(r, m) == [r EXCEPT !.readable = m]

\* the element the loop reads at index i: from the array it ranges over, which
\* is the array Close writes in place unless an append has moved the registry
\* to a new array since the loop began
LoopElements(s, i) ==
    IF Len(readers) = Len(s) THEN {readers[i]} ELSE {s[i], readers[i]}

\* an iteration that stores the handle's pointer without taking the handle's lock
RefreshSwapReadableUnlocked(t) ==
    /\ pc[t] = "Refresh_loop"
    /\ \E h \in LoopElements(loc[t].s, loc[t].i) :
          rdrs' = [rdrs EXCEPT ![h] = swapReadable(rdrs[h], readable)]
    /\ Goto(t, IF loc[t].i = Len(loc[t].s) THEN "Refresh_sync" ELSE "Refresh_loop",
            [loc[t] EXCEPT !.i = loc[t].i + 1])
    /\ UNCHANGED <<coreVars, readers, readersLock, closedSet, lagVars, accepted, refreshes, scope>>

\* Map.Refresh: one iteration, r.swapReadable(m.readable)
RefreshSwapReadable(t) ==
    /\ pc[t] = "Refresh_loop"
    /\ \E h \in LoopElements(loc[t].s, loc[t].i) :
          /\ rdrs[h].lock = NoThread
          /\ rdrs' = [rdrs EXCEPT ![h] = swapReadable(rdrs[h], readable)]
    /\ Goto(t, IF loc[t].i = Len(loc[t].s) THEN "Refresh_sync" ELSE "Refresh_loop",
            [loc[t] EXCEPT !.i = loc[t].i + 1])
    /\ UNCHANGED <<coreVars, readers, readersLock, closedSet, lagVars, accepted, refreshes, scope>>

\* a Refresh that returns without running its deferred Unlock
RefreshSyncKeepsLock(t) ==
    /\ pc[t] = "Refresh_sync"
    /\ LET r == syncLocked(oplog, maps[writable]) IN
          /\ oplog' = r.entries
          /\ maps' = [maps EXCEPT ![writable] = r.m]
    /\ Finish(t)
    /\ UNCHANGED <<readable, writable, writeLock, regVars, lagVars, accepted, refreshes, scope>>

\* Map.Refresh: m.syncLocked(); deferred m.writeLock.Unlock()
RefreshSync(t) ==
    /\ pc[t] = "Refresh_sync"
    /\ LET r == syncLocked(oplog, maps[writable]) IN
          /\ oplog' = r.entries
          /\ maps' = [maps EXCEPT ![writable] = r.m]
    /\ writeLock' = NoThread
    /\ Finish(t)
    /\ UNCHANGED <<readable, writable, regVars, lagVars, accepted, refreshes, scope>>

\* ------------------------------------------------------- src/reader.go

\* NewReader: &Reader{m: m, readable: unsafe.Pointer(m.readable)}
NewReader(r) == [closed |-> FALSE, lock |-> NoThread, readable |-> r]

\* remove: s[i] = s[len(s)-1] writes the caller's backing array; the shortened
\* slice is the return value
remove(s, i) == [array |-> [s EXCEPT ![i] = s[Len(s)]],
                 result |-> SubSeq([s EXCEPT ![i] = s[Len(s)]], 1, Len(s) - 1)]

\* Map.Reader: m.readersLock.Lock(); r := NewReader(m)
ReaderLock(t) ==
    /\ pc[t] = "idle"
    /\ readersLock = NoThread
    /\ Len(rdrs) < scope.rdrs
    /\ readersLock' = t
    /\ rdrs' = Append(rdrs, NewReader(readable))
    /\ Goto(t, "Reader", [r |-> Len(rdrs) + 1])
    /\ UNCHANGED <<coreVars, readers, closedSet, lagVars, accepted, refreshes, scope>>

\* Map.Reader: m.readers = append(m.readers, r); return r; deferred Unlock
ReaderAppend(t) ==
    /\ pc[t] = "Reader"
    /\ readers' = Append(readers, loc[t].r)
    /\ readersLock' = NoThread
    /\ Finish(t)
    /\ UNCHANGED <<coreVars, rdrs, closedSet, lagVars, accepted, refreshes, scope>>

\* the registry after Close's loop: remove is called at the first index holding
\* the handle and its return value is dropped
CloseRegistry(s, h) ==
    IF h \in Range(s)
    THEN remove(s, CHOOSE i \in 1..Len(s) : s[i] = h /\ \A j \in 1..(i - 1) : s[j] # h).array
    ELSE s

\* Reader.Close: readersLock is held for the whole body and nothing else is
\* waited for; no field of the Reader is written
Close(t, h) ==
    /\ pc[t] = "idle"
    /\ h \in Returned
    /\ readersLock = NoThread
    /\ readers' = CloseRegistry(readers, h)
    /\ closedSet' = closedSet \cup {h}
    /\ Finish(t)
    /\ UNCHANGED <<coreVars, readersLock, rdrs, lagVars, accepted, refreshes, scope>>

\* a Get that waits for the writer lock before it takes the handle's lock
GetLockAfterWriters(t, h) ==
    /\ pc[t] = "idle"
    /\ h \in Returned
    /\ writeLock = NoThread
    /\ rdrs[h].lock = NoThread
    /\ rdrs' = [rdrs EXCEPT ![h].lock = t]
    /\ Goto(t, "Get", [h |-> h, afterClose |-> h \in closedSet])
    /\ UNCHANGED <<coreVars, readers, readersLock, closedSet, lagVars, accepted, refreshes, scope>>

\* Reader.Get: r.lock.Lock(). afterClose is history: Close() had returned on
\* the handle when this call began.
GetLock(t, h) ==
    /\ pc[t] = "idle"
    /\ h \in Returned
    /\ rdrs[h].lock = NoThread
    /\ rdrs' = [rdrs EXCEPT ![h].lock = t]
    /\ Goto(t, "Get", [h |-> h, afterClose |-> h \in closedSet])
    /\ UNCHANGED <<coreVars, readers, readersLock, closedSet, lagVars, accepted, refreshes, scope>>

\* Reader.Has: r.lock.Lock()
HasLock(t, h) ==
    /\ pc[t] = "idle"
    /\ h \in Returned
    /\ rdrs[h].lock = NoThread
    /\ rdrs' = [rdrs EXCEPT ![h].lock = t]
    /\ Goto(t, "Has", [h |-> h, afterClose |-> h \in closedSet])
    /\ UNCHANGED <<coreVars, readers, readersLock, closedSet, lagVars, accepted, refreshes, scope>>

\* v, ok := (*r.readable)[key]; a missing key reads as (nil, false)
Lookup(m, k) == IF k \in DOMAIN m THEN [v |-> m[k], ok |-> TRUE] ELSE [v |-> Nil, ok |-> FALSE]

\* panic("reader closed"): nothing is returned
Panic == [panic |-> TRUE, v |-> Nil, ok |-> FALSE]

\* what Get(k) on handle h reports: the panic or (v, ok)
GetResult(h, k) ==
    IF rdrs[h].closed THEN Panic
    ELSE [panic |-> FALSE, v |-> Lookup(View(h), k).v, ok |-> Lookup(View(h), k).ok]

\* what Has(k) on handle h reports: the panic or ok
HasResult(h, k) ==
    IF rdrs[h].closed THEN Panic
    ELSE [panic |-> FALSE, v |-> Nil, ok |-> Lookup(View(h), k).ok]

\* Reader.Get, reporting res: the check of r.closed, the lookup, the deferred
\* r.lock.Unlock(). A panicking goroutine returns nothing.
GetLookup(t, k, res) ==
    /\ pc[t] = "Get"
    /\ res = GetResult(loc[t].h, k)
    /\ rdrs' = [rdrs EXCEPT ![loc[t].h].lock = NoThread]
    /\ IF res.panic THEN Goto(t, "panic", NoLoc) ELSE Finish(t)
    /\ UNCHANGED <<coreVars, readers, readersLock, closedSet, lagVars, accepted, refreshes, scope>>

\* Reader.Has, reporting res
HasLookup(t, k, res) ==
    /\ pc[t] = "Has"
    /\ res = HasResult(loc[t].h, k)
    /\ rdrs' = [rdrs EXCEPT ![loc[t].h].lock = NoThread]
    /\ IF res.panic THEN Goto(t, "panic", NoLoc) ELSE Finish(t)
    /\ UNCHANGED <<coreVars, readers, readersLock, closedSet, lagVars, accepted, refreshes, scope>>

\* everything a Get or a Has can report
Results == [panic : BOOLEAN, v : Vals, ok : BOOLEAN]

\* ------------------------------------------- the registry engine as a whole
Next ==
    \E t \in Threads :
        \/ \E k \in scope.keys, v \in scope.vals : MapInsert(t, k, v)
        \/ \E k \in scope.keys, ok \in BOOLEAN : MapDelete(t, k, ok)
        \/ MapClear(t)
        \/ RefreshLock(t) \/ RefreshSwapReadable(t) \/ RefreshSync(t)
        \/ ReaderLock(t) \/ ReaderAppend(t)
        \/ \E h \in Handles : Close(t, h) \/ GetLock(t, h) \/ HasLock(t, h)
        \/ \E k \in scope.keys : \E res \in Results : GetLookup(t, k, res)
        \/ \E k \in scope.keys : \E res \in Results : HasLookup(t, k, res)

Spec == Init /\ [][Next]_vars

\* ------------------------------------------------------------ src/map.go
\* The auto-refresh engine. It has no registry: Get and Has read m.readable
\* directly. Its deferred calls run last-in first-out, so in Insert, Delete and
\* Clear the deferred Unlock runs before the deferred observeWrite; swap and the
\* counter reset of Refresh run outside the lock too. Each access made without
\* the lock is a step of its own; a section that holds the lock throughout and
\* reads m.writable once is one step.

AutoScopes == { [log |-> MaxLog, rdrs |-> 0, keys |-> {"a"}, vals |-> {"p1"}] }

\* NewMap(options...): init() and opts.MaxReplicationWriteLag
InitAuto ==
    /\ NewMap
    /\ replicationWriteLag = 0
    /\ maxReplicationWriteLag \in 0..(MaxLog - 1)
    /\ pc = [t \in Threads |-> "idle"]
    /\ loc = [t \in Threads |-> NoLoc]
    /\ closedSet = {}
    /\ accepted = EmptyMap
    /\ refreshes = 0
    /\ scope \in AutoScopes

autoFrame == <<regVars, maxReplicationWriteLag, refreshes, scope>>

\* The code never bounds the counter. Writer calls are issued while the
\* counter, and every value of it that a thread has read and not yet written
\* back, is below MaxLag.
MayWrite ==
    /\ LogLen(oplog) < scope.log
    /\ replicationWriteLag < MaxLag
    /\ \A t \in Threads : pc[t] = "observeWrite_store" => loc[t].lag < MaxLag

\* Insert: Lock; PushAndApply(oplog.Insert(key, value), m.writable); Unlock;
\* observeWrite follows without the lock. nth is history: the write is the
\* nth since the log was last replayed and cleared.
AutoInsert(t, k, v) ==
    /\ pc[t] = "idle"
    /\ writeLock = NoThread
    /\ MayWrite
    /\ Mutate(Insert(k, v))
    /\ Goto(t, "observeWrite", [nth |-> LogLen(oplog')])
    /\ UNCHANGED <<readable, writable, writeLock, replicationWriteLag, autoFrame>>

\* Delete: m.writeLock.Lock(). atLock is history: whether the key was in the
\* writable copy when the lock was taken.
AutoDeleteLock(t, k) ==
    /\ pc[t] = "idle"
    /\ writeLock = NoThread
    /\ MayWrite
    /\ writeLock' = t
    /\ Goto(t, "Delete_read", [key |-> k, atLock |-> DeleteOk(maps[writable], k)])
    /\ UNCHANGED <<maps, readable, writable, oplog, replicationWriteLag, accepted, autoFrame>>

\* Delete: _, ok := (*m.writable)[key]
AutoDeleteRead(t) ==
    /\ pc[t] = "Delete_read"
    /\ Goto(t, "Delete_apply", [key |-> loc[t].key, atLock |-> loc[t].atLock,
                                 ok |-> DeleteOk(maps[writable], loc[t].key)])
    /\ UNCHANGED <<coreVars, replicationWriteLag, accepted, autoFrame>>

\* Delete, returning ok: PushAndApply(oplog.Delete(key), m.writable); Unlock;
\* observeWrite follows without the lock
AutoDeleteApply(t, k, ok) ==
    /\ pc[t] = "Delete_apply"
    /\ k = loc[t].key
    /\ ok = loc[t].ok
    /\ Mutate(Delete(k))
    /\ writeLock' = NoThread
    /\ Goto(t, "observeWrite", [nth |-> LogLen(oplog')])
    /\ UNCHANGED <<readable, writable, replicationWriteLag, autoFrame>>

\* Clear: Lock; PushAndApply(oplog.Clear(), m.writable); Unlock
AutoClear(t) ==
    /\ pc[t] = "idle"
    /\ writeLock = NoThread
    /\ MayWrite
    /\ Mutate(Clear)
    /\ Goto(t, "observeWrite", [nth |-> LogLen(oplog')])
    /\ UNCHANGED <<readable, writable, writeLock, replicationWriteLag, autoFrame>>

\* observeWrite: m.replicationWriteLag++ reads the counter ...
ObserveLoad(t) ==
    /\ pc[t] = "observeWrite"
    /\ Goto(t, "observeWrite_store", [lag |-> replicationWriteLag, nth |-> loc[t].nth])
    /\ UNCHANGED <<coreVars, replicationWriteLag, accepted, autoFrame>>

\* ... and writes it back incremented
ObserveStore(t) ==
    /\ pc[t] = "observeWrite_store"
    /\ replicationWriteLag' = loc[t].lag + 1
    /\ Goto(t, "observeWrite_check", [nth |-> loc[t].nth])
    /\ UNCHANGED <<coreVars, accepted, autoFrame>>

\* observeWrite: the threshold test
observeWrite(lag, max) == max > 0 /\ lag > max

\* observeWrite: if the threshold is crossed call m.Refresh(), else return.
\* auto is history: the refresh was called by a mutation call.
ObserveCheck(t) ==
    /\ pc[t] = "observeWrite_check"
    /\ IF observeWrite(replicationWriteLag, maxReplicationWriteLag)
       THEN Goto(t, "swap", [auto |-> TRUE])
       ELSE Finish(t)
    /\ UNCHANGED <<coreVars, replicationWriteLag, accepted, autoFrame>>

\* Refresh, called by a user: m.swap() comes first
AutoRefresh(t) ==
    /\ pc[t] = "idle"
    /\ Goto(t, "swap", [auto |-> FALSE])
    /\ UNCHANGED <<coreVars, replicationWriteLag, accepted, autoFrame>>

\* swap: readable := m.readable; writable := m.writable
SwapLoad(t) ==
    /\ pc[t] = "swap"
    /\ Goto(t, "swap_readable", [readable |-> readable, writable |-> writable,
                                  auto |-> loc[t].auto])
    /\ UNCHANGED <<coreVars, replicationWriteLag, accepted, autoFrame>>

\* swap: m.readable = the writable it read
SwapStoreReadable(t) ==
    /\ pc[t] = "swap_readable"
    /\ readable' = loc[t].writable
    /\ Goto(t, "swap_writable", loc[t])
    /\ UNCHANGED <<maps, writable, oplog, writeLock, replicationWriteLag, accepted, autoFrame>>

\* swap: m.writable = the readable it read
SwapStoreWritable(t) ==
    /\ pc[t] = "swap_writable"
    /\ writable' = loc[t].readable
    /\ Goto(t, "sync", [auto |-> loc[t].auto])
    /\ UNCHANGED <<maps, readable, oplog, writeLock, replicationWriteLag, accepted, autoFrame>>

\* sync: Lock; m.oplog.Apply(m.writable); deferred m.oplog.Clear() and Unlock
AutoSync(t) ==
    /\ pc[t] = "sync"
    /\ writeLock = NoThread
    /\ LET r == syncLocked(oplog, maps[writable]) IN
          /\ oplog' = r.entries
          /\ maps' = [maps EXCEPT ![writable] = r.m]
    /\ Goto(t, "reset", loc[t])
    /\ UNCHANGED <<readable, writable, writeLock, replicationWriteLag, accepted, autoFrame>>

\* Refresh: m.replicationWriteLag = 0, and the call returns
AutoReset(t) ==
    /\ pc[t] = "reset"
    /\ replicationWriteLag' = 0
    /\ Finish(t)
    /\ UNCHANGED <<coreVars, accepted, autoFrame>>

\* Map.Get / Map.Has: m.readable is read, with no lock
AutoGetLoad(t) ==
    /\ pc[t] = "idle"
    /\ Goto(t, "MapGet", [m |-> readable])
    /\ UNCHANGED <<coreVars, replicationWriteLag, accepted, autoFrame>>

AutoHasLoad(t) ==
    /\ pc[t] = "idle"
    /\ Goto(t, "MapHas", [m |-> readable])
    /\ UNCHANGED <<coreVars, replicationWriteLag, accepted, autoFrame>>

\* Map.Get, reporting res: v, ok := (*m.readable)[key]
AutoGet(t, k, res) ==
    /\ pc[t] = "MapGet"
    /\ res = [panic |-> FALSE, v |-> Lookup(maps[loc[t].m], k).v, ok |-> Lookup(maps[loc[t].m], k).ok]
    /\ Finish(t)
    /\ UNCHANGED <<coreVars, replicationWriteLag, accepted, autoFrame>>

\* Map.Has, reporting res
AutoHas(t, k, res) ==
    /\ pc[t] = "MapHas"
    /\ res = [panic |-> FALSE, v |-> Nil, ok |-> Lookup(maps[loc[t].m], k).ok]
    /\ Finish(t)
    /\ UNCHANGED <<coreVars, replicationWriteLag, accepted, autoFrame>>

NextAuto ==
    \E t \in Threads :
        \/ \E k \in scope.keys, v \in scope.vals : AutoInsert(t, k, v)
        \/ \E k \in scope.keys : AutoDeleteLock(t, k)
        \/ AutoDeleteRead(t)
        \/ \E k \in scope.keys, ok \in BOOLEAN : AutoDeleteApply(t, k, ok)
        \/ AutoClear(t)
        \/ ObserveLoad(t) \/ ObserveStore(t) \/ ObserveCheck(t)
        \/ AutoRefresh(t)
        \/ SwapLoad(t) \/ SwapStoreReadable(t) \/ SwapStoreWritable(t)
        \/ AutoSync(t) \/ AutoReset(t)
        \/ AutoGetLoad(t) \/ AutoHasLoad(t)
        \/ \E k \in scope.keys : \E res \in Results : AutoGet(t, k, res)
        \/ \E k \in scope.keys : \E res \in Results : AutoHas(t, k, res)

SpecAuto == InitAuto /\ [][NextAuto]_vars

\* ------------------------------------------------ properties: the registry engine

\* a step that is a whole Insert, Delete or Clear call
MutationStep ==
    \E t \in Threads :
        \/ \E k \in scope.keys, v \in scope.vals : MapInsert(t, k, v)
        \/ \E k \in scope.keys, ok \in BOOLEAN : MapDelete(t, k, ok)
        \/ MapClear(t)

\* number of places of the registry holding handle h
Count(s, h) == Cardinality({i \in 1..Len(s) : s[i] = h})

\* C1: read isolation. No Insert/Delete/Clear call changes what Get/Has answer on
\* any handle Reader() has returned: the copy each such handle reads from has the
\* same contents after the call as before it, the readable copy is untouched and
\* no handle's pointer moves.
C1_ReadIsolation ==
    [][MutationStep =>
          /\ \A h \in Returned : View(h)' = View(h)
          /\ maps'[readable] = maps[readable]
          /\ \A h \in Handles : rdrs'[h].readable = rdrs[h].readable]_vars

\* C2: eventual visibility. On the step on which a Refresh returns, every
\* handle created so far (so every handle registered at or before the refresh)
\* reads from a copy whose contents are exactly those the writable copy had
\* when that Refresh took the writer lock.
C2_EventualVisibility ==
    [][\A t \in Threads :
          RefreshSync(t) => \A h \in Handles : View(h)' = loc[t].atLock]_vars

\* C2 witness: a Refresh is about to return, it took the lock with pending
\* writes, and it re-pointed a handle that was created after those writes.
C2_Witness ==
    \E t \in Threads :
        /\ pc[t] = "Refresh_sync"
        /\ oplog # <<>>
        /\ loc[t].atLock # maps[writable]
        /\ \E h \in Range(loc[t].s) \cap Range(readers) : rdrs[h].readable = readable

\* C3: no copy is modified while a Get/Has lookup is executing against it: a
\* thread inside a lookup holds the handle's lock and reads the copy the
\* handle points to, and no step of any other thread changes that copy.
C3_NoMidMutationRead ==
    [][\A t \in Threads :
          pc[t] \in {"Get", "Has"} =>
             maps'[rdrs[loc[t].h].readable] = maps[rdrs[loc[t].h].readable]]_vars

\* C6: lag invariant. Whenever no mutation or refresh call is in progress,
\* replaying the log in order onto the readable copy's contents gives exactly
\* the writable copy's contents.
C6_LagInvariant ==
    writeLock = NoThread => Apply(oplog, maps[readable]) = maps[writable]

\* C6 witness: no call in progress, a full log, a non-empty readable copy that
\* differs from the writable copy.
C6_Witness ==
    /\ writeLock = NoThread
    /\ Len(oplog) >= 2
    /\ maps[readable] # EmptyMap
    /\ maps[readable] # maps[writable]

\* C7: convergence. The step on which a Refresh returns leaves the log empty
\* and the readable and writable copies with identical contents.
C7_ConvergenceOnRefresh ==
    [][\A t \in Threads :
          RefreshSync(t) => oplog' = <<>> /\ maps'[readable'] = maps'[writable']]_vars

\* C7 witness: a Refresh that follows earlier refreshes is about to replay a
\* full log onto a stale, non-empty copy.
C7_Witness ==
    \E t \in Threads :
        /\ pc[t] = "Refresh_sync"
        /\ Len(oplog) >= 2
        /\ maps[writable] # EmptyMap
        /\ maps[writable] # maps[readable]

\* C8: invalid-handle use. A Get or Has that begins after Close() has returned
\* on its handle panics and returns no lookup result.
C8_ClosedHandlePanics ==
    [][\A t \in Threads, k \in scope.keys, res \in Results :
          (GetLookup(t, k, res) \/ HasLookup(t, k, res)) /\ loc[t].afterClose
             => res.panic]_vars

\* C9: unregistration. Close() on a registered handle h leaves the registry
\* without h, one shorter, and with every other handle in it exactly once.
C9_CloseUnregisters ==
    [][\A t \in Threads, h \in Handles :
          Close(t, h) /\ h \in Range(readers) =>
             /\ h \notin Range(readers')
             /\ Len(readers') = Len(readers) - 1
             /\ \A g \in Range(readers) \ {h} : Count(readers', g) = 1]_vars

\* ------------------------------------------- properties: the auto engine

\* C4: in the auto-refresh engine every writer-side access that is a step of
\* its own (the loads and stores of the pointer swap, the counter reset of
\* Refresh, the counter increment and the threshold check of observeWrite) is
\* taken by the thread that holds writeLock at that moment.
C4_WriterAccessUnderLock ==
    [][\A t \in Threads :
          (\/ SwapLoad(t) \/ SwapStoreReadable(t) \/ SwapStoreWritable(t)
           \/ AutoReset(t)
           \/ ObserveLoad(t) \/ ObserveStore(t) \/ ObserveCheck(t))
          => writeLock = t]_vars

\* C5: write serialization. Whenever every call has returned, the writable
\* copy equals the result of applying every accepted mutation, in the order
\* in which the calls held the writer lock.
C5_WriteSerialization ==
    (\A t \in Threads : pc[t] = "idle") => maps[writable] = accepted

\* C10: Delete(k) returns true exactly when k was in the writable copy at the
\* moment the call took the writer lock, and k is absent from the writable
\* copy when the deletion has been applied.
C10_DeleteResult ==
    [][\A t \in Threads, k \in scope.keys, ok \in BOOLEAN :
          AutoDeleteApply(t, k, ok) =>
             /\ ok = loc[t].atLock
             /\ k \notin DOMAIN maps'[writable']]_vars

\* C11: automatic refresh. A mutation call goes on to refresh exactly when
\* maxReplicationWriteLag = N > 0 and its write was at least the (N+1)-th
\* since the last refresh; when that refresh returns, the readable copy holds
\* every accepted write and the counter is zero. With N = 0 no mutation call
\* refreshes.
C11_AutomaticRefresh ==
    [][\A t \in Threads :
          /\ ObserveCheck(t) =>
                (pc'[t] = "swap" <=>
                   (maxReplicationWriteLag > 0 /\ loc[t].nth > maxReplicationWriteLag))
          /\ (AutoReset(t) /\ loc[t].auto) =>
                (maps'[readable'] = accepted /\ replicationWriteLag' = 0)]_vars

\* Insert / Delete / Clear: the call of t has begun and has not returned
\* (observeWrite and the refresh it calls are part of the call)
InMutationCall(t) ==
    \/ pc[t] \in {"Delete_read", "Delete_apply", "observeWrite",
                  "observeWrite_store", "observeWrite_check"}
    \/ pc[t] \in {"swap", "swap_readable", "swap_writable", "sync", "reset"} /\ loc[t].auto

\* C12: bounded write lag. With maxReplicationWriteLag = N > 0, whenever no
\* mutation call is in progress the operation log holds at most N entries.
C12_BoundedWriteLag ==
    (maxReplicationWriteLag > 0 /\ \A t \in Threads : ~InMutationCall(t))
       => LogLen(oplog) <= maxReplicationWriteLag

\* C13: readers and writers do not block each other (registry engine). A Get
\* or Has waits for nothing but the handle's own lock and, once inside, its
\* lookup can always complete, whoever holds the writer lock or the registry
\* lock; an Insert, Delete or Clear waits for nothing but the writer lock,
\* whichever readers are inside a lookup.
C13_ReadersWritersDoNotBlock ==
    \A t \in Threads :
       /\ pc[t] = "Get" => ENABLED (\E k \in scope.keys, res \in Results : GetLookup(t, k, res))
       /\ pc[t] = "Has" => ENABLED (\E k \in scope.keys, res \in Results : HasLookup(t, k, res))
       /\ \A h \in Returned :
             (pc[t] = "idle" /\ rdrs[h].lock = NoThread)
                => (ENABLED GetLock(t, h) /\ ENABLED HasLock(t, h))
       /\ (pc[t] = "idle" /\ writeLock = NoThread /\ LogLen(oplog) < scope.log)
             => /\ ENABLED (\E k \in scope.keys, v \in scope.vals : MapInsert(t, k, v))
                /\ ENABLED (\E k \in scope.keys, ok \in BOOLEAN : MapDelete(t, k, ok))
                /\ ENABLED MapClear(t)

\* a lookup is in progress on a handle while another thread holds the writer
\* lock with mutations pending
C13_Witness ==
    \E t, u \in Threads :
       /\ pc[t] \in {"Get", "Has"}
       /\ writeLock = u
       /\ pc[u] = "Refresh_sync"
       /\ oplog # <<>>

\* an Insert is logged and not yet replayed by a refresh
InsertPending == \E i \in 1..Len(oplog) : oplog[i].t = entryTypeInsert

\* a step of a Refresh call
RefreshStep == \E t \in Threads : RefreshLock(t) \/ RefreshSwapReadable(t) \/ RefreshSync(t)

\* every handle a caller holds and has not closed answers not-found for every
\* key, and so will a handle created now (NewReader copies m.readable)
Cleared ==
    /\ maps[readable] = EmptyMap
    /\ \A h \in Returned \ closedSet : View(h) = EmptyMap

\* C14: clear then refresh. When a Refresh that directly follows a Clear
\* returns, every handle, and every handle created from then on, answers
\* not-found for every key; and that stays so through every later step
\* (Insert, Delete, Clear, Reader, Close, lookups, Refresh) except the steps
\* of a refresh that publishes a pending Insert.
C14_ClearThenRefresh ==
    [][/\ \A t \in Threads :
             (RefreshSync(t) /\ oplog # <<>> /\ oplog[Len(oplog)].t = entryTypeClear)
                => Cleared'
       /\ (Cleared /\ ~(RefreshStep /\ InsertPending)) => Cleared']_vars

\* C15: role exclusivity. Whenever no thread is between the two stores of a
\* pointer swap, the readable and the writable reference denote different
\* copies, and between them both copies made at construction.
C15_RoleExclusivity ==
    (\A t \in Threads : pc[t] # "swap_writable")
       => (readable # writable /\ {readable, writable} = Copies)

\* C16: registry iteration is protected. Refresh holds the registry lock at
\* every iteration of its propagation loop, the registry does not change
\* while a Refresh is in its loop, and when a Refresh returns no registered
\* handle has been missed: each points at the readable copy.
C16_RegistryIterationProtected ==
    [][\A t \in Threads :
          /\ RefreshSwapReadable(t) => readersLock = t
          /\ pc[t] = "Refresh_loop" => readers' = readers
          /\ RefreshSync(t) =>
                \A h \in Range(readers) : rdrs'[h].readable = readable']_vars

\* C17: propagation completes before the writer lock is released. Whenever
\* the writer lock is free, every registered handle points at the current
\* readable copy and none at the current writable copy.
C17_PropagationBeforeUnlock ==
    writeLock = NoThread =>
       \A h \in Range(readers) :
          rdrs[h].readable = readable /\ rdrs[h].readable # writable

\* C18: no torn read. A thread inside Get or Has on a handle holds the
\* handle's lock, and no step taken meanwhile (an iteration of Refresh
\* included) changes that handle's pointer: the lookup runs against the one
\* copy the pointer denoted when the lock was taken.
C18_NoTornRead ==
    [][\A t \in Threads :
          pc[t] \in {"Get", "Has"} =>
             /\ rdrs[loc[t].h].lock = t
             /\ rdrs'[loc[t].h].readable = rdrs[loc[t].h].readable]_vars

\* a Refresh has reached, in its loop, a handle that still has the old
\* pointer while another thread is inside a lookup on that same handle
C18_Witness ==
    \E t, u \in Threads :
       /\ pc[t] \in {"Get", "Has"}
       /\ pc[u] = "Refresh_loop"
       /\ LoopElements(loc[u].s, loc[u].i) = {loc[t].h}
       /\ rdrs[loc[t].h].readable # readable

\* map.go: a step that applies and logs the write of an Insert, Delete or Clear
AutoMutationStep ==
    \E t \in Threads :
       \/ \E k \in scope.keys, v \in scope.vals : AutoInsert(t, k, v)
       \/ \E k \in scope.keys, ok \in BOOLEAN : AutoDeleteApply(t, k, ok)
       \/ AutoClear(t)

\* C19: log length and counter (auto-refresh engine). Every accepted
\* mutation, a Delete of an absent key and a Clear of an empty map included,
\* adds exactly one entry to the log, the replay of a refresh empties it and
\* nothing else changes it, so that the log length is the number of
\* mutations accepted since the last refresh; and whenever no call is in
\* progress replicationWriteLag equals the log length.
C19_LogLengthAndCounter ==
    [][/\ AutoMutationStep => LogLen(oplog') = LogLen(oplog) + 1
       /\ (\E t \in Threads : AutoSync(t)) => oplog' = <<>>
       /\ (~AutoMutationStep /\ ~(\E t \in Threads : AutoSync(t))) => oplog' = oplog
       /\ (\A t \in Threads : pc'[t] = "idle") => replicationWriteLag' = LogLen(oplog')]_vars

\* C20: the writer sees its own writes. Whenever the writer lock is free the
\* writable copy equals the reference map: every accepted Insert, Delete and
\* Clear since construction applied in acceptance order to an empty map,
\* whatever refreshes came in between; and no mutation changes what an open
\* handle answers (a reader sees it only after a refresh that follows it).
C20_WriterSeesOwnWrites ==
    [][/\ writeLock' = NoThread => maps'[writable'] = accepted'
       /\ MutationStep => \A h \in Returned \ closedSet : View(h)' = View(h)]_vars

\* ------------------------------------- src/pkg/oplog/log.go on its own
\* The log used by one caller, outside any Map: the target of Apply and of
\* PushAndApply is the caller's map, held here in maps[writable]. pc tells how
\* many Apply calls have returned since the log or the target was last touched
\* by anything else, loc keeps the target as it was before the first of them.

LogScopes == { [log |-> MaxLog, rdrs |-> 0, keys |-> Keys, vals |-> Vals] }

\* every map[K]*V over the keys
LogTargets == UNION {[S -> Vals] : S \in SUBSET Keys}

\* every entry the exported constructors build
LogEntries ==
    {Insert(k, v) : k \in Keys, v \in Vals} \cup {Delete(k) : k \in Keys} \cup {Clear}

\* NewLog() and a target map of the caller's
InitLog ==
    /\ maps \in {[c \in Copies |-> IF c = "m2" THEN m ELSE EmptyMap] : m \in LogTargets}
    /\ readable = "m1"
    /\ writable = "m2"
    /\ oplog = NewLog
    /\ writeLock = NoThread
    /\ readers = <<>>
    /\ readersLock = NoThread
    /\ rdrs = <<>>
    /\ replicationWriteLag = 0
    /\ maxReplicationWriteLag = 0
    /\ pc = [t \in Threads |-> "idle"]
    /\ loc = [t \in Threads |-> NoLoc]
    /\ closedSet = {}
    /\ accepted = EmptyMap
    /\ refreshes = 0
    /\ scope \in LogScopes

logFrame == <<readable, writable, writeLock, regVars, lagVars, accepted, refreshes, scope>>

\* l.Push(e)
LogPush(e) ==
    /\ LogLen(oplog) < scope.log
    /\ oplog' = Push(oplog, e)
    /\ pc' = [t \in Threads |-> "idle"]
    /\ loc' = [t \in Threads |-> NoLoc]
    /\ UNCHANGED <<maps, logFrame>>

\* l.PushAndApply(e, &target)
LogPushAndApply(e) ==
    /\ LogLen(oplog) < scope.log
    /\ LET r == PushAndApply(oplog, e, maps[writable])
       IN /\ oplog' = r.entries
          /\ maps' = [maps EXCEPT ![writable] = r.m]
    /\ pc' = [t \in Threads |-> "idle"]
    /\ loc' = [t \in Threads |-> NoLoc]
    /\ UNCHANGED logFrame

\* l.Apply(&target)
LogApply ==
    /\ maps' = [maps EXCEPT ![writable] = Apply(oplog, maps[writable])]
    /\ pc' = [t \in Threads |-> IF pc[t] = "idle" THEN "Apply" ELSE "Apply2"]
    /\ loc' = [t \in Threads |-> IF pc[t] = "idle" THEN [before |-> maps[writable]] ELSE loc[t]]
    /\ UNCHANGED <<oplog, logFrame>>

\* l.Clear()
LogClearAll ==
    /\ oplog # <<>>
    /\ oplog' = LogClear
    /\ pc' = [t \in Threads |-> "idle"]
    /\ loc' = [t \in Threads |-> NoLoc]
    /\ UNCHANGED <<maps, logFrame>>

NextLog ==
    \/ \E e \in LogEntries : LogPush(e)
    \/ \E e \in LogEntries : LogPushAndApply(e)
    \/ LogApply
    \/ LogClearAll

SpecLog == InitLog /\ [][NextLog]_vars

\* ------------------------------------------------ properties: the log

\* the position of the last entry that decides key k: an Insert or a Delete of
\* k, or a Clear; 0 when the log never touches k
LastTouch(entries, k) ==
    LET S == {i \in 1..Len(entries) :
                 entries[i].t = entryTypeClear
                 \/ (entries[i].t \in {entryTypeInsert, entryTypeDelete} /\ entries[i].k = k)}
    IN IF S = {} THEN 0 ELSE CHOOSE i \in S : \A j \in S : j <= i

\* what the replay semantics promise for the target m: each key is decided by
\* the last entry that touches it, and is left alone when none does
Replayed(entries, m) ==
    LET last(k) == LastTouch(entries, k)
        present == {k \in Keys \cup DOMAIN m :
                       IF last(k) = 0 THEN k \in DOMAIN m
                       ELSE entries[last(k)].t = entryTypeInsert}
    IN [k \in present |-> IF last(k) = 0 THEN m[k] ELSE entries[last(k)].v]

\* C21: Apply replays the entries in insertion order and leaves the log as it
\* is. On the target an Insert sets or overwrites its key, a Delete removes
\* its key and does nothing when the key is absent, a Clear removes every key
\* of the target, logged or not: so each key ends as the last entry touching it
\* says (a later Insert wins over an earlier Insert or Delete, entries before a
\* Clear do not count), and a key no entry touches is left as it was. A single
\* entry applied by PushAndApply obeys the same rule.
C21_ReplaySemantics ==
    [][ /\ LogApply =>
            /\ oplog' = oplog
            /\ maps'[writable] = Replayed(oplog, maps[writable])
        /\ \A e \in LogEntries : LogPushAndApply(e) =>
            /\ oplog' = Append(oplog, e)
            /\ maps'[writable] = Replayed(<<e>>, maps[writable])
            /\ (e.t = entryTypeDelete /\ e.k \notin DOMAIN maps[writable])
                   => maps'[writable] = maps[writable] ]_vars

\* an Apply has returned for a log that deletes a key and then inserts it again
\* after a Clear wiped a key the log never names
C21_Witness ==
    /\ pc["t1"] = "Apply"
    /\ Len(oplog) = 2
    /\ oplog[1].t = entryTypeClear
    /\ oplog[2] = Insert("a", "p1")
    /\ "b" \in DOMAIN loc["t1"].before
    /\ loc["t1"].before # maps[writable]

\* every log of at most n entries
LogsUpTo(n) == UNION {[1..i -> LogEntries] : i \in 0..n}

\* C22: replay is idempotent while the target is untouched between the calls:
\* for every log and every target, an Apply that follows an Apply, with no
\* other call on the log or the target in between, leaves the target as the
\* first Apply left it.
C22_ReplayIdempotent ==
    [][ (LogApply /\ pc["t1"] # "idle") => maps'[writable] = maps[writable] ]_vars

\* Apply returned twice in a row for a log whose first replay changed the target
C22_Witness ==
    /\ pc["t1"] = "Apply2"
    /\ oplog # <<>>
    /\ loc["t1"].before # maps[writable]

\* C22 as stated: among the logs this run can build and the target maps there
\* are a log and a target for which two Apply calls in a row leave the target
\* different from one Apply call
C22_NotIdempotent ==
    \E entries \in LogsUpTo(scope.log), m \in LogTargets :
        Apply(entries, Apply(entries, m)) # Apply(entries, m)

\* ------------------------------------- properties: the registry engine (2)

\* C23: each Refresh flips which physical copy is readable. Its swap step
\* makes the copy that was writable the readable one and the copy that was
\* readable the writable one and changes the contents of neither copy; no
\* other step moves the two references; and after k refreshes the readable
\* copy is the initial readable copy, m1, exactly when k is even.
C23_RefreshFlips ==
    [][ /\ \A t \in Threads : RefreshLock(t) =>
              /\ readable' = writable
              /\ writable' = readable
              /\ maps' = maps
        /\ (\A t \in Threads : ~RefreshLock(t)) =>
              /\ readable' = readable
              /\ writable' = writable
        /\ (readable = "m1") <=> (refreshes = 0)
        /\ (readable' = "m1") <=> (refreshes' = 0)
        /\ writable' # readable' ]_vars

\* the swap step of a second (fourth, ...) Refresh has run while the two
\* copies differ: the initial readable copy is readable again
C23_Witness ==
    /\ \E t \in Threads : pc[t] \in {"Refresh_loop", "Refresh_sync"}
    /\ refreshes = 0
    /\ readable = "m1"
    /\ maps[readable] # maps[writable]
    /\ maps[readable] # EmptyMap

\* C24: a second Close is a no-op. Close called on a handle on which Close has
\* already returned does not fail and leaves the registry, both map copies, the
\* log and every handle's pointer as they were.
C24_SecondCloseNoOp ==
    [][ \A t \in Threads : \A h \in closedSet :
            Close(t, h) =>
                /\ pc'[t] = "idle"
                /\ readers' = readers
                /\ maps' = maps
                /\ oplog' = oplog
                /\ \A g \in Handles : rdrs'[g].readable = rdrs[g].readable ]_vars

\* C26: a Refresh with nothing pending is invisible. Every step of a Refresh
\* that finds the log empty leaves, on every handle and for every key, what
\* Get and Has answer as it was, leaves the log empty and the contents of both
\* copies unchanged; its swap step only exchanges the roles of the two copies.
C26_EmptyRefreshInvisible ==
    [][ (RefreshStep /\ oplog = <<>>) =>
            /\ oplog' = <<>>
            /\ maps' = maps
            /\ \A h \in Handles : \A k \in Keys :
                   /\ GetResult(h, k)' = GetResult(h, k)
                   /\ HasResult(h, k)' = HasResult(h, k)
            /\ (\A t \in Threads : RefreshLock(t) =>
                   readable' = writable /\ writable' = readable) ]_vars

\* a Refresh that found the log empty has re-pointed a handle at a copy that
\* holds a key, and is about to run its sync
C26_Witness ==
    \E t \in Threads :
        /\ pc[t] = "Refresh_sync"
        /\ oplog = <<>>
        /\ loc[t].atLock # EmptyMap
        /\ \E h \in Range(loc[t].s) : rdrs[h].readable = readable

\* ------------------------------------------- both engines, fairly scheduled
\* A run is a run of one engine; the scenario chosen at construction tells
\* which. The Go scheduler preempts and runs every runnable goroutine, so a
\* call that can take its next step takes it; a goroutine blocked in
\* sync.Mutex.Lock() is handed the mutex once it has starved (the mutex's
\* starvation mode), so a step that waits for a lock which is free again and
\* again is taken too: strong fairness on the steps inside a call. Whether a
\* goroutine makes a new call is up to its caller: no fairness there.

\* the scenarios of the fair runs, over one key and one value: one pending
\* mutation and one handle in the registry engine; two pending mutations and
\* WithMaxReplicationWriteLag(1), so that the second write of a row triggers a
\* refresh, in the auto-refresh engine
FairScopes == { [log |-> 1, rdrs |-> 1, keys |-> {"a"}, vals |-> {"p1"}] }

FairAutoScopes == { [log |-> 2, rdrs |-> 0, keys |-> {"a"}, vals |-> {"p1"}] }

\* NewMap() of either engine
InitFair ==
    /\ NewMap
    /\ replicationWriteLag = 0
    /\ pc = [t \in Threads |-> "idle"]
    /\ loc = [t \in Threads |-> NoLoc]
    /\ closedSet = {}
    /\ accepted = EmptyMap
    /\ refreshes = 0
    /\ \/ scope \in FairScopes /\ maxReplicationWriteLag = 0
       \/ scope \in FairAutoScopes /\ maxReplicationWriteLag = 1

NextFair ==
    \/ scope \in FairScopes /\ Next
    \/ scope \in FairAutoScopes /\ NextAuto

\* the steps inside a call of the registry engine
ContinueRegistry(t) ==
    /\ scope \in FairScopes
    /\ \/ RefreshSwapReadable(t) \/ RefreshSync(t)
       \/ ReaderAppend(t)
       \/ \E k \in scope.keys : \E res \in Results : GetLookup(t, k, res)
       \/ \E k \in scope.keys : \E res \in Results : HasLookup(t, k, res)

\* the steps inside a call of the auto-refresh engine
ContinueAuto(t) ==
    /\ scope \in FairAutoScopes
    /\ \/ AutoDeleteRead(t)
       \/ \E k \in scope.keys, ok \in BOOLEAN : AutoDeleteApply(t, k, ok)
       \/ ObserveLoad(t) \/ ObserveStore(t) \/ ObserveCheck(t)
       \/ SwapLoad(t) \/ SwapStoreReadable(t) \/ SwapStoreWritable(t)
       \/ AutoSync(t) \/ AutoReset(t)
       \/ \E k \in scope.keys : \E res \in Results : AutoGet(t, k, res)
       \/ \E k \in scope.keys : \E res \in Results : AutoHas(t, k, res)

\* a step by which the call thread t is in moves on
Continue(t) == ContinueRegistry(t) \/ ContinueAuto(t)

SpecFair == InitFair /\ [][NextFair]_vars /\ \A t \in Threads : SF_vars(Continue(t))

\* C25: deadlock freedom under fair scheduling, in both engines. Every call a
\* goroutine is in eventually returns, and every lock that is held (the writer
\* lock, the registry lock, each handle's lock) is eventually free, so that a
\* call waiting to take it gets it: a mutation call that triggers a refresh
\* has released the writer lock before its refresh takes it, and a Refresh
\* waiting for a handle's lock waits for a reader that waits for nothing.
\* (Whenever X holds, later not X) is written "always eventually not X".
C25_DeadlockFreedom ==
    /\ \A t \in Threads : []<>(pc[t] = "idle")
    /\ []<>(writeLock = NoThread)
    /\ []<>(readersLock = NoThread)
    /\ \A h \in 1..MaxReaders : []<>(h \in Handles => rdrs[h].lock = NoThread)

\* a mutation call has triggered a refresh whose sync took the writer lock the
\* call itself had held, while the other goroutine is inside a call too
C25_Witness ==
    \E t \in Threads :
        /\ pc[t] = "reset"
        /\ loc[t].auto
        /\ \E u \in Threads \ {t} : pc[u] # "idle"
====
